---- MODULE Spec2Model ----
(***************************************************************************)
(* Head-tracked off-axis projection demos (guyromm/Window).                *)
(*                                                                         *)
(* The variants of the same pipeline are modelled side by side; the        *)
(* variable `variant` selects one of them for a whole behaviour:           *)
(*   "corridor" src/unnamed/part_000 (coloured corridor) and               *)
(*              src/perspective-corridor.js (textured corridor): their     *)
(*              tracking, projection and render code is the same text, and *)
(*              they differ in the initial isInterlacedMode                *)
(*   "shoebox"  src/unnamed/part_001 (wireframe box, STL models)           *)
(*   "glb"      src/glb-demo.js      (Three.js)                            *)
(*                                                                         *)
(* JavaScript numbers are modelled as exact extended rationals             *)
(* [n |-> numerator, d |-> denominator]: d > 0 is a finite value in lowest *)
(* terms, 1/0 is +Infinity, -1/0 is -Infinity and 0/0 is NaN.  Rounding of *)
(* IEEE doubles and the sign of zero are not modelled, except that         *)
(* ConstantInputSpec runs the position filter with every result rounded to *)
(* SignificandBits binary digits, to nearest with ties to even.            *)
(*                                                                         *)
(* Specifications:                                                         *)
(*   Spec              a whole session of one page                         *)
(*   FairSession       a short session in which pending callbacks run      *)
(*   ConstantInputSpec the position filter fed one position over and over  *)
(*   ToggleSpec        the tracking toggle called by the load handler's    *)
(*                     timers and by clicks, with a camera that starts     *)
(***************************************************************************)
EXTENDS Integers, Sequences, FiniteSets, TLC

VARIABLES
    variant,                \* which source file runs
    loopState,              \* "STOPPED" | "RUNNING" | "FAILED" (load handler)
    now,                    \* Date.now(), in ms
    isHeadTracking,
    baselineFaceWidth,
    calibratedDistance,
    headPosition,
    lastValidHeadPosition,
    hasTrackedAtLeastOnce,
    positionHistory,
    lastDetectionBbox,      \* (a history variable in the Three.js variant, which
                            \*  does not keep the bounding box of the last result)
    faceDetected,           \* text of the #faceDetected element
    trackingStatus,         \* text of the #trackingStatus element
    cameraStream,           \* camera._stream is set (the camera has started)
    pendingStarts,          \* toggleHeadTracking calls awaiting camera start
    inflight,               \* a faceDetection.send() awaits its result
    isInterlacedMode,
    frame,                  \* the eye passes drawn by the handler that ran last
    calibrations,           \* successful calibrateDistance calls so far
    alertText,              \* the alert() dialog on display ("" if none)
    pendingFrames,          \* requestAnimationFrame callbacks waiting for a display frame
    catVertexBuffer,        \* the cat model has been loaded (shoebox variant)
    autoStart,              \* how far the load handler's auto-start timers have got
    toggleCalls,            \* toggleHeadTracking calls counted by ToggleSpec
    trackingAtFirstCall     \* isHeadTracking when the first counted call began

vars == <<variant, loopState, now, isHeadTracking, baselineFaceWidth,
          calibratedDistance, headPosition, lastValidHeadPosition,
          hasTrackedAtLeastOnce, positionHistory, lastDetectionBbox,
          faceDetected, trackingStatus, cameraStream, pendingStarts,
          inflight, isInterlacedMode, frame, calibrations, alertText,
          pendingFrames, catVertexBuffer, autoStart, toggleCalls,
          trackingAtFirstCall>>

----------------------------------------------------------------------------
(* Bounds of the model                                                     *)

\* clock advances are cut off this many 150 ms units after the start
MaxClockUnits == 3

\* a detection is cut off when it would leave positionHistory longer than this
MaxHistory == 2

\* toggleHeadTracking calls that may await camera start at the same time
MaxPendingStarts == 1

\* successful calibrations in one session
MaxCalibrations == 1

\* binary digits a Number keeps when the filter is run in floating point
SignificandBits == 4

\* samples the filter holds when it is fed a constant position
MaxSamples == 3

\* clicks on the tracking button that ToggleSpec follows
MaxToggleCalls == 2

----------------------------------------------------------------------------
(* JavaScript numbers                                                      *)

RECURSIVE GCD(_, _)
GCD(a, b) == IF b = 0 THEN a ELSE GCD(b, a % b)

Abs(i) == IF i < 0 THEN -i ELSE i

Sign(i) == IF i > 0 THEN 1 ELSE IF i < 0 THEN -1 ELSE 0

\* the number n/d; d = 0 gives Infinity, -Infinity or NaN as IEEE division does
Rat(n, d) ==
    IF d = 0 THEN [n |-> Sign(n), d |-> 0]
    ELSE LET g == GCD(Abs(n), Abs(d))
             s == Sign(d)
         IN  [n |-> (s * n) \div g, d |-> (s * d) \div g]

Int2Rat(i) == [n |-> i, d |-> 1]

Zero == Int2Rat(0)

One == Int2Rat(1)

NaN == [n |-> 0, d |-> 0]

Infinity == [n |-> 1, d |-> 0]

\* the value null (only baselineFaceWidth and lastDetectionBbox hold it)
null == [n |-> 0, d |-> -1]

IsNaN(a) == a.n = 0 /\ a.d = 0

IsFinite(a) == a.d > 0

\* a + b
Add(a, b) ==
    IF a.d = 0 /\ b.d = 0 THEN (IF a.n = b.n THEN a ELSE NaN)
    ELSE IF a.d = 0 THEN a
    ELSE IF b.d = 0 THEN b
    ELSE LET g == GCD(a.d, b.d)
         IN  Rat(a.n * (b.d \div g) + b.n * (a.d \div g), (a.d \div g) * b.d)

\* -a
Neg(a) == [n |-> -a.n, d |-> a.d]

\* a - b
Sub(a, b) == Add(a, Neg(b))

\* a * b
Mul(a, b) ==
    IF a.d = 0 \/ b.d = 0 THEN [n |-> Sign(a.n) * Sign(b.n), d |-> 0]
    ELSE LET g1 == GCD(Abs(a.n), b.d)
             g2 == GCD(Abs(b.n), a.d)
         IN  [n |-> (a.n \div g1) * (b.n \div g2), d |-> (a.d \div g2) * (b.d \div g1)]

\* a / b
Div(a, b) == Mul(a, Rat(b.d, b.n))

\* a < b (false when either is NaN)
Lt(a, b) == a.n * b.d < b.n * a.d

\* a > b
Gt(a, b) == Lt(b, a)

\* ToBoolean(v) for a number or null: 0, NaN and null are falsy
Truthy(v) == v.n # 0

Vec3(x, y, z) == [x |-> x, y |-> y, z |-> z]

----------------------------------------------------------------------------
(* Configuration constants of the four variants                            *)

Variants == {"corridor", "shoebox", "glb"}

\* the variants that keep lastValidHeadPosition / hasTrackedAtLeastOnce
KeepsLastValid(v) == v \in {"shoebox", "glb"}

\* the variants whose calibrateDistance reads lastDetectionBbox
KeepsLastBbox(v) == v \in {"corridor", "shoebox"}

SMOOTHING_WINDOW_MS == 200

SCREEN_WIDTH_CM(v) ==
    IF v = "corridor" THEN Rat(1439, 10) ELSE Rat(309, 10)

SCREEN_HEIGHT_CM(v) ==
    IF v = "corridor" THEN Rat(809, 10) ELSE Rat(174, 10)

CAMERA_OFFSET_X(v) == Zero

CAMERA_OFFSET_Y(v) ==
    IF v = "corridor" THEN Rat(4045, 100) ELSE Rat(87, 10)

\* initial calibratedDistance and headPosition.z
DefaultDistance(v) ==
    IF v = "corridor" THEN Int2Rat(300) ELSE Int2Rat(40)

EYE_SEPARATION == Rat(65, 10)

\* overlayCanvas.width / height once tracking has been switched on
VIDEO_WIDTH == 640

VIDEO_HEIGHT == 480

\* Date.now() when the page loads
StartTime == 1000

----------------------------------------------------------------------------
(* Inputs                                                                  *)

BBox(xc, yc, w, h) == [xCenter |-> xc, yCenter |-> yc, width |-> w, height |-> h]

\* bounding boxes the detector may report (normalized to [0,1])
Boxes ==
    { BBox(Rat(1, 2), Rat(1, 2), Rat(1, 4), Rat(1, 4)),     \* centred, 160 px wide
      BBox(Rat(1, 4), Rat(3, 4), Rat(1, 8), Rat(1, 8)),     \* off-centre, 80 px wide
      BBox(Rat(1, 2), Rat(1, 2), Zero, Zero) }              \* degenerate: width 0

\* what prompt() may return: truthy is ToBoolean of the string, numeric is
\* Number(string) (what isNaN looks at), parsed is parseFloat(string)
Answer(t, b, num, pf) == [text |-> t, truthy |-> b, numeric |-> num, parsed |-> pf]

PromptAnswers ==
    { Answer("50", TRUE, Int2Rat(50), Int2Rat(50)),
      Answer("0", TRUE, Zero, Zero),
      Answer("abc", TRUE, NaN, NaN),
      Answer("cancel", FALSE, NaN, NaN) }

\* Date.now() advances by one of these (ms)
ClockSteps == {150, 300}

----------------------------------------------------------------------------
(* Position filter and head position estimator (updateHeadPosition)        *)

Sample(x, y, z, t) == [x |-> x, y |-> y, z |-> z, timestamp |-> t]

\* a filter whose eviction loop is missing
EvictNothing(h, cutoffTime) == h

\* an eviction loop that lets samples stay for two windows
RECURSIVE EvictAfterTwoWindows(_, _)
EvictAfterTwoWindows(h, cutoffTime) ==
    IF Len(h) > 0 /\ h[1].timestamp < cutoffTime - SMOOTHING_WINDOW_MS
    THEN EvictAfterTwoWindows(Tail(h), cutoffTime)
    ELSE h

\* while (h.length > 0 && h[0].timestamp < cutoffTime) h.shift()
RECURSIVE EvictOld(_, _)
EvictOld(h, cutoffTime) ==
    IF Len(h) > 0 /\ h[1].timestamp < cutoffTime
    THEN EvictOld(Tail(h), cutoffTime)
    ELSE h

\* weight of one sample: 1 - age / SMOOTHING_WINDOW_MS
Weight(pos, currentTime) ==
    Sub(One, Div(Int2Rat(currentTime - pos.timestamp), Int2Rat(SMOOTHING_WINDOW_MS)))

\* the forEach loop: the weighted sums of x, y, z and the total weight
RECURSIVE WeightedSums(_, _, _)
WeightedSums(h, currentTime, acc) ==
    IF h = <<>> THEN acc
    ELSE LET pos == Head(h)
             weight == Weight(pos, currentTime)
         IN  WeightedSums(Tail(h), currentTime,
                 [x |-> Add(acc.x, Mul(pos.x, weight)),
                  y |-> Add(acc.y, Mul(pos.y, weight)),
                  z |-> Add(acc.z, Mul(pos.z, weight)),
                  totalWeight |-> Add(acc.totalWeight, weight)])

\* recency-weighted average, raw values when totalWeight > 0 is false
WeightedEstimate(h, currentTime, raw) ==
    LET s == WeightedSums(h, currentTime,
                          [x |-> Zero, y |-> Zero, z |-> Zero, totalWeight |-> Zero])
    IN  IF Gt(s.totalWeight, Zero)
        THEN Vec3(Div(s.x, s.totalWeight), Div(s.y, s.totalWeight),
                  Div(s.z, s.totalWeight))
        ELSE raw

\* the for..of loop of the Three.js variant: plain sums
RECURSIVE PlainSums(_, _)
PlainSums(h, acc) ==
    IF h = <<>> THEN acc
    ELSE PlainSums(Tail(h), Vec3(Add(acc.x, Head(h).x), Add(acc.y, Head(h).y),
                                 Add(acc.z, Head(h).z)))

\* arithmetic mean, raw values when the history is empty
MeanEstimate(h, raw) ==
    IF Len(h) > 0
    THEN LET s == PlainSums(h, Vec3(Zero, Zero, Zero))
             k == Int2Rat(Len(h))
         IN  Vec3(Div(s.x, k), Div(s.y, k), Div(s.z, k))
    ELSE raw

\* the smoothing policy of variant v
Estimate(v, h, currentTime, raw) ==
    IF v = "glb" THEN MeanEstimate(h, raw) ELSE WeightedEstimate(h, currentTime, raw)

\* (offset / size) * screen + cameraOffset, negated for the mirrored variants
RawAxis(v, pixelOffset, size, screenCm, cameraOffset) ==
    IF v = "corridor"
    THEN Add(Mul(Div(pixelOffset, size), screenCm), cameraOffset)
    ELSE Add(Mul(Neg(Div(pixelOffset, size)), screenCm), cameraOffset)

\* an updateHeadPosition that stores the raw sample instead of the estimate
UpdateHeadPositionUnsmoothed(v, faceX, faceY, faceWidth, baseline, calibrated, history, currentTime) ==
    LET videoWidth == Int2Rat(VIDEO_WIDTH)
        videoHeight == Int2Rat(VIDEO_HEIGHT)
        baseline1 == IF ~Truthy(baseline) THEN faceWidth ELSE baseline
        newDistance == Mul(Div(baseline1, faceWidth), calibrated)
        rawX == RawAxis(v, Sub(faceX, Div(videoWidth, Int2Rat(2))), videoWidth,
                        SCREEN_WIDTH_CM(v), CAMERA_OFFSET_X(v))
        rawY == RawAxis(v, Sub(faceY, Div(videoHeight, Int2Rat(2))), videoHeight,
                        SCREEN_HEIGHT_CM(v), CAMERA_OFFSET_Y(v))
        pushed == Append(history, Sample(rawX, rawY, newDistance, currentTime))
    IN  [baselineFaceWidth |-> baseline1,
         positionHistory |-> EvictOld(pushed, currentTime - SMOOTHING_WINDOW_MS),
         headPosition |-> Vec3(rawX, rawY, newDistance),
         sample |-> Sample(rawX, rawY, newDistance, currentTime)]

\* an updateHeadPosition that averages before it evicts
UpdateHeadPositionLateEviction(v, faceX, faceY, faceWidth, baseline, calibrated, history, currentTime) ==
    LET videoWidth == Int2Rat(VIDEO_WIDTH)
        videoHeight == Int2Rat(VIDEO_HEIGHT)
        baseline1 == IF ~Truthy(baseline) THEN faceWidth ELSE baseline
        newDistance == Mul(Div(baseline1, faceWidth), calibrated)
        rawX == RawAxis(v, Sub(faceX, Div(videoWidth, Int2Rat(2))), videoWidth,
                        SCREEN_WIDTH_CM(v), CAMERA_OFFSET_X(v))
        rawY == RawAxis(v, Sub(faceY, Div(videoHeight, Int2Rat(2))), videoHeight,
                        SCREEN_HEIGHT_CM(v), CAMERA_OFFSET_Y(v))
        pushed == Append(history, Sample(rawX, rawY, newDistance, currentTime))
    IN  [baselineFaceWidth |-> baseline1,
         positionHistory |-> EvictOld(pushed, currentTime - SMOOTHING_WINDOW_MS),
         headPosition |-> Estimate(v, pushed, currentTime, Vec3(rawX, rawY, newDistance)),
         sample |-> Sample(rawX, rawY, newDistance, currentTime)]

\* an updateHeadPosition whose depth ratio is upside down
UpdateHeadPositionDirectRatio(v, faceX, faceY, faceWidth, baseline, calibrated, history, currentTime) ==
    LET videoWidth == Int2Rat(VIDEO_WIDTH)
        videoHeight == Int2Rat(VIDEO_HEIGHT)
        baseline1 == IF ~Truthy(baseline) THEN faceWidth ELSE baseline
        newDistance == Mul(Div(faceWidth, baseline1), calibrated)
        rawX == RawAxis(v, Sub(faceX, Div(videoWidth, Int2Rat(2))), videoWidth,
                        SCREEN_WIDTH_CM(v), CAMERA_OFFSET_X(v))
        rawY == RawAxis(v, Sub(faceY, Div(videoHeight, Int2Rat(2))), videoHeight,
                        SCREEN_HEIGHT_CM(v), CAMERA_OFFSET_Y(v))
        pushed == Append(history, Sample(rawX, rawY, newDistance, currentTime))
        kept == EvictOld(pushed, currentTime - SMOOTHING_WINDOW_MS)
    IN  [baselineFaceWidth |-> baseline1,
         positionHistory |-> kept,
         headPosition |-> Estimate(v, kept, currentTime, Vec3(rawX, rawY, newDistance)),
         sample |-> Sample(rawX, rawY, newDistance, currentTime)]

\* baselineFaceWidth, positionHistory and headPosition
UpdateHeadPosition(v, faceX, faceY, faceWidth, baseline, calibrated, history, currentTime) ==
    LET videoWidth == Int2Rat(VIDEO_WIDTH)
        videoHeight == Int2Rat(VIDEO_HEIGHT)
        baseline1 == IF ~Truthy(baseline) THEN faceWidth ELSE baseline
        newDistance == Mul(Div(baseline1, faceWidth), calibrated)
        horizontalPixelOffset == Sub(faceX, Div(videoWidth, Int2Rat(2)))
        verticalPixelOffset == Sub(faceY, Div(videoHeight, Int2Rat(2)))
        rawX == RawAxis(v, horizontalPixelOffset, videoWidth,
                        SCREEN_WIDTH_CM(v), CAMERA_OFFSET_X(v))
        rawY == RawAxis(v, verticalPixelOffset, videoHeight,
                        SCREEN_HEIGHT_CM(v), CAMERA_OFFSET_Y(v))
        pushed == Append(history, Sample(rawX, rawY, newDistance, currentTime))
        kept == EvictOld(pushed, currentTime - SMOOTHING_WINDOW_MS)
    IN  [baselineFaceWidth |-> baseline1,
         positionHistory |-> kept,
         headPosition |-> Estimate(v, kept, currentTime, Vec3(rawX, rawY, newDistance)),
         sample |-> Sample(rawX, rawY, newDistance, currentTime)]

----------------------------------------------------------------------------
(* Off-axis projection builder                                             *)

\* A Float32Array(16) is a function on 1..16: element k of the code is m[k + 1].

Frustum(left, right, bottom, top, near, far) ==
    [left |-> left, right |-> right, bottom |-> bottom, top |-> top,
     near |-> near, far |-> far]

\* createPerspectiveMatrix(left, right, bottom, top, near, far)
createPerspectiveMatrix(fr) ==
    LET two == Int2Rat(2)
        entry(k) ==
            CASE k = 0 -> Div(Mul(two, fr.near), Sub(fr.right, fr.left))
              [] k = 5 -> Div(Mul(two, fr.near), Sub(fr.top, fr.bottom))
              [] k = 8 -> Div(Add(fr.right, fr.left), Sub(fr.right, fr.left))
              [] k = 9 -> Div(Add(fr.top, fr.bottom), Sub(fr.top, fr.bottom))
              [] k = 10 -> Neg(Div(Add(fr.far, fr.near), Sub(fr.far, fr.near)))
              [] k = 11 -> Int2Rat(-1)
              [] k = 14 -> Neg(Div(Mul(Mul(two, fr.far), fr.near), Sub(fr.far, fr.near)))
              [] OTHER -> Zero
    IN  [k \in 1..16 |-> entry(k - 1)]

\* the translation matrix [1,0,0,0, 0,1,0,0, 0,0,1,0, tx,ty,tz,1]
Translation(tx, ty, tz) ==
    LET entry(k) ==
            CASE k \in {0, 5, 10, 15} -> One
              [] k = 12 -> tx
              [] k = 13 -> ty
              [] k = 14 -> tz
              [] OTHER -> Zero
    IN  [k \in 1..16 |-> entry(k - 1)]

\* multiply(a, b) of part_000 and perspective-corridor.js:
\* result[i*4+j] = sum over k of a[i*4+k] * b[k*4+j]
multiplyRowIndexed(a, b) ==
    LET entry(p) ==
            LET i == p \div 4
                j == p % 4
            IN  Add(Add(Mul(a[i * 4 + 0 + 1], b[0 * 4 + j + 1]),
                        Mul(a[i * 4 + 1 + 1], b[1 * 4 + j + 1])),
                    Add(Mul(a[i * 4 + 2 + 1], b[2 * 4 + j + 1]),
                        Mul(a[i * 4 + 3 + 1], b[3 * 4 + j + 1])))
    IN  [k \in 1..16 |-> entry(k - 1)]

\* multiply(a, b) of part_001 (and Matrix4.multiplyMatrices of three.js):
\* result[col*4+row] = sum over k of a[k*4+row] * b[col*4+k]
multiplyColumnMajor(a, b) ==
    LET entry(p) ==
            LET col == p \div 4
                row == p % 4
            IN  Add(Add(Mul(a[0 * 4 + row + 1], b[col * 4 + 0 + 1]),
                        Mul(a[1 * 4 + row + 1], b[col * 4 + 1 + 1])),
                    Add(Mul(a[2 * 4 + row + 1], b[col * 4 + 2 + 1]),
                        Mul(a[3 * 4 + row + 1], b[col * 4 + 3 + 1])))
    IN  [k \in 1..16 |-> entry(k - 1)]

multiply(v, a, b) ==
    IF v = "corridor" THEN multiplyRowIndexed(a, b)
    ELSE multiplyColumnMajor(a, b)

\* half the screen rectangle, in the units the variant builds its frustum in
\* (cm; the Three.js variant divides by sceneScale = 10)
HalfScreenWidth(v) ==
    IF v = "glb" THEN Div(Div(SCREEN_WIDTH_CM(v), Int2Rat(10)), Int2Rat(2))
    ELSE Div(SCREEN_WIDTH_CM(v), Int2Rat(2))

HalfScreenHeight(v) ==
    IF v = "glb" THEN Div(Div(SCREEN_HEIGHT_CM(v), Int2Rat(10)), Int2Rat(2))
    ELSE Div(SCREEN_HEIGHT_CM(v), Int2Rat(2))

\* left = near * (-halfWidth - headX) / headZ and its three siblings
SimilarTriangles(near, far, halfWidth, halfHeight, headX, headY, headZ) ==
    Frustum(Div(Mul(near, Sub(Neg(halfWidth), headX)), headZ),
            Div(Mul(near, Sub(halfWidth, headX)), headZ),
            Div(Mul(near, Sub(Neg(halfHeight), headY)), headZ),
            Div(Mul(near, Sub(halfHeight, headY)), headZ),
            near, far)

\* the frustum createPerspectiveCorrectedMatrix(headX, headY, headZ) computes
\* (the WebGL variants)
CorrectedFrustum(v, headX, headY, headZ) ==
    IF v = "corridor"
    THEN LET dampedZ == Add(Int2Rat(300), Mul(Sub(headZ, Int2Rat(300)), Rat(1, 2)))
             dampingFactor == Rat(1, 2)
         IN  Frustum(Add(Neg(HalfScreenWidth(v)), Mul(headX, dampingFactor)),
                     Add(HalfScreenWidth(v), Mul(headX, dampingFactor)),
                     Add(Neg(HalfScreenHeight(v)), Mul(headY, dampingFactor)),
                     Add(HalfScreenHeight(v), Mul(headY, dampingFactor)),
                     dampedZ, Add(dampedZ, Int2Rat(1000)))
    ELSE SimilarTriangles(Rat(1, 10), Int2Rat(200), HalfScreenWidth(v),
                          HalfScreenHeight(v), headX, headY, headZ)

\* the view matrix renderEye(eyeX, eyeY, eyeZ) builds
EyeViewMatrix(v, eye) ==
    IF v = "corridor" THEN Translation(Zero, Zero, Zero)
    ELSE Translation(Neg(eye.x), Neg(eye.y), Neg(eye.z))

\* canvas.height: the output rows are 0 .. CanvasHeight - 1, row 0 at the bottom
CanvasHeight == 4

Rows == 0..(CanvasHeight - 1)

Channels == {"r", "g", "b"}

\* bool isEvenRow = mod(floor(gl_FragCoord.y), 2.0) < 0.5
isEvenRow(row) == row % 2 = 0

\* main() of the fragment shader of `program`: the colour channels of the
\* fragment's colour that reach the framebuffer at `row` ({} is discard)
FragmentShader(interlaced, eyePass, row) ==
    IF interlaced
    THEN IF eyePass = 1 /\ isEvenRow(row) THEN {"r"}
         ELSE IF eyePass = 0 /\ ~isEvenRow(row) THEN {"b"}
         ELSE {}
    ELSE Channels

\* main() of the fragment shader of `litProgram`: it has no interlaced or
\* eyePass uniform
LitFragmentShader(interlaced, eyePass, row) == Channels

\* gl.clear(gl.COLOR_BUFFER_BIT | gl.DEPTH_BUFFER_BIT) with the scissor box on
\* `rows`
GlClear(rows) ==
    [op |-> "clear", what |-> "framebuffer", eyePass |-> -1, rows |-> rows,
     channels |-> Channels]

\* gl.drawElements / gl.drawArrays of `what` during pass eyePass, through a
\* fragment shader that writes channels shader[row] at each row it keeps
GlDraw(what, eyePass, shader) ==
    [op |-> "draw", what |-> what, eyePass |-> eyePass,
     rows |-> {row \in Rows : shader[row] # {}},
     channels |-> UNION {shader[row] : row \in Rows}]

\* the draw calls of one renderEye: the scene drawn with `program`, then
\* renderCatSTL with `litProgram` if the cat has been loaded
\* (renderSpots, renderSTL and the far wall use `program` like the box edges)
DrawScene(v, eyePass, interlaced, cat) ==
    LET shader == [row \in Rows |-> FragmentShader(interlaced, eyePass, row)]
        lit == [row \in Rows |-> LitFragmentShader(interlaced, eyePass, row)]
    IN  IF v = "shoebox"
        THEN << GlDraw("box", eyePass, shader), GlDraw("spots", eyePass, shader) >>
             \o (IF cat THEN << GlDraw("cat", eyePass, lit) >> ELSE <<>>)
        ELSE << GlDraw("corridor", eyePass, shader) >>

\* renderEye(eyeX, eyeY, eyeZ) of the WebGL variants: the eye, its frustum and
\* its draw calls
renderEye(v, eyePass, eye, interlaced, cat) ==
    [eyePass |-> eyePass, eye |-> eye,
     frustum |-> CorrectedFrustum(v, eye.x, eye.y, eye.z),
     gl |-> DrawScene(v, eyePass, interlaced, cat)]

\* the GL calls `calls` issued before the pass starts
Preceded(calls, pass) == [pass EXCEPT !.gl = calls \o @]

\* a render() whose two eyes have changed sides
renderEyesSwapped(v, head, interlaced, cat) ==
    IF interlaced
    THEN << Preceded(<< GlClear(Rows), GlClear(Rows) >>,
                renderEye(v, 0, Vec3(Add(head.x, Div(EYE_SEPARATION, Int2Rat(2))), head.y, head.z),
                          interlaced, cat)),
            renderEye(v, 1, Vec3(Sub(head.x, Div(EYE_SEPARATION, Int2Rat(2))), head.y, head.z),
                      interlaced, cat) >>
    ELSE << Preceded(<< GlClear(Rows) >>,
                renderEye(v, 0, Vec3(head.x, head.y, head.z), interlaced, cat)) >>

\* a render() that moves the right eye by the whole eye separation
renderUnevenEyes(v, head, interlaced, cat) ==
    IF interlaced
    THEN << Preceded(<< GlClear(Rows), GlClear(Rows) >>,
                renderEye(v, 0, Vec3(Sub(head.x, Div(EYE_SEPARATION, Int2Rat(2))), head.y, head.z),
                          interlaced, cat)),
            renderEye(v, 1, Vec3(Add(head.x, EYE_SEPARATION), head.y, head.z),
                      interlaced, cat) >>
    ELSE << Preceded(<< GlClear(Rows) >>,
                renderEye(v, 0, Vec3(head.x, head.y, head.z), interlaced, cat)) >>

\* a render() that clears again before the second eye
renderClearingEachPass(v, head, interlaced, cat) ==
    IF interlaced
    THEN << Preceded(<< GlClear(Rows), GlClear(Rows) >>,
                renderEye(v, 0, Vec3(Sub(head.x, Div(EYE_SEPARATION, Int2Rat(2))), head.y, head.z),
                          interlaced, cat)),
            Preceded(<< GlClear(Rows) >>,
                renderEye(v, 1, Vec3(Add(head.x, Div(EYE_SEPARATION, Int2Rat(2))), head.y, head.z),
                          interlaced, cat)) >>
    ELSE << Preceded(<< GlClear(Rows) >>,
                renderEye(v, 0, Vec3(head.x, head.y, head.z), interlaced, cat)) >>

\* render() of the WebGL variants: the eye passes in the order they are drawn,
\* each with the GL calls issued since the pass before it
render(v, head, interlaced, cat) ==
    IF interlaced
    THEN << Preceded(<< GlClear(Rows), GlClear(Rows) >>,
                renderEye(v, 0, Vec3(Sub(head.x, Div(EYE_SEPARATION, Int2Rat(2))), head.y, head.z),
                          interlaced, cat)),
            renderEye(v, 1, Vec3(Add(head.x, Div(EYE_SEPARATION, Int2Rat(2))), head.y, head.z),
                      interlaced, cat) >>
    ELSE << Preceded(<< GlClear(Rows) >>,
                renderEye(v, 0, Vec3(head.x, head.y, head.z), interlaced, cat)) >>

\* tan(25 degrees), to four decimals: half the 50 degree field of view
TanHalfFov == Rat(4663, 10000)

\* window.innerWidth / window.innerHeight
WindowAspect == Rat(16, 9)

\* PerspectiveCamera.updateProjectionMatrix(): the symmetric frustum of
\* new THREE.PerspectiveCamera(50, aspect, 0.1, 1000)
SymmetricFrustum ==
    LET near == Rat(1, 10)
        top == Mul(near, TanHalfFov)
        right == Mul(WindowAspect, top)
    IN  Frustum(Neg(right), right, Neg(top), top, near, Int2Rat(1000))

\* updateCameraFromHeadPosition(): camera.position and the off-axis frustum
CameraFromHead(head) ==
    LET sceneScale == Int2Rat(10)
        sensitivityMultiplier == Rat(1, 2)
        headX == Mul(Div(head.x, sceneScale), sensitivityMultiplier)
        headY == Mul(Div(head.y, sceneScale), sensitivityMultiplier)
        headZ == Div(head.z, sceneScale)
    IN  [position |-> Vec3(headX, headY, headZ),
         frustum |-> SimilarTriangles(Rat(1, 10), Int2Rat(50), HalfScreenWidth("glb"),
                                      HalfScreenHeight("glb"), headX, headY, headZ)]

\* renderer.render(scene, camera) with the scissor box on `rows`: autoClear
\* is left on, so the renderer clears (inside the scissor box) and then draws
\* the scene in full colour
RendererRender(eyePass, rows) ==
    << GlClear(rows),
       GlDraw("scene", eyePass, [row \in Rows |-> IF row \in rows THEN Channels ELSE {}]) >>

\* for (let y = first; y < height; y += 2) { setScissor(0, y, width, 1); render }
RECURSIVE ScissoredRows(_, _)
ScissoredRows(eyePass, y) ==
    IF y < CanvasHeight
    THEN RendererRender(eyePass, {y}) \o ScissoredRows(eyePass, y + 2)
    ELSE <<>>

\* the renderer.render calls of one eye, with the camera at `position` and the
\* projection matrix of frustum fr
ThreeRender(eyePass, position, fr, calls) ==
    [eyePass |-> eyePass, eye |-> position, frustum |-> fr, gl |-> calls]

\* renderInterlacedStereo(): both eyes after camera.updateProjectionMatrix()
renderInterlacedStereo(cam) ==
    LET halfSeparation == Div(Rat(65, 10), Int2Rat(20))
        originalX == cam.position.x
    IN  << ThreeRender(0, [cam.position EXCEPT !.x = Sub(originalX, halfSeparation)],
                       SymmetricFrustum, ScissoredRows(0, 0)),
           ThreeRender(1, [cam.position EXCEPT !.x = Add(originalX, halfSeparation)],
                       SymmetricFrustum, ScissoredRows(1, 1)) >>

\* animate() of the Three.js variant
animateThree(head, interlaced) ==
    LET cam == CameraFromHead(head)
    IN  IF interlaced THEN renderInterlacedStereo(cam)
        ELSE << ThreeRender(0, cam.position, cam.frustum, RendererRender(0, Rows)) >>

\* one render tick of variant v
RenderTick(v, head, interlaced, cat) ==
    IF v = "glb" THEN animateThree(head, interlaced)
    ELSE render(v, head, interlaced, cat)

\* the matrix an eye pass hands to the vertex shader: multiply(projectionMatrix,
\* viewMatrix) in renderEye, projectionMatrix * matrixWorldInverse in three.js
MvpMatrix(v, pass) ==
    IF v = "glb"
    THEN multiplyColumnMajor(createPerspectiveMatrix(pass.frustum),
                             Translation(Neg(pass.eye.x), Neg(pass.eye.y), Neg(pass.eye.z)))
    ELSE multiply(v, createPerspectiveMatrix(pass.frustum), EyeViewMatrix(v, pass.eye))

\* gl_Position = mvpMatrix * vec4(position, 1.0), then the perspective divide:
\* the normalized device x and y of the point (px, py, pz)
NDC(mvp, px, py, pz) ==
    LET clip(row) == Add(Add(Mul(mvp[0 * 4 + row + 1], px), Mul(mvp[1 * 4 + row + 1], py)),
                         Add(Mul(mvp[2 * 4 + row + 1], pz), mvp[3 * 4 + row + 1]))
    IN  [x |-> Div(clip(0), clip(3)), y |-> Div(clip(1), clip(3))]

----------------------------------------------------------------------------
(* The state machine                                                       *)

NullBbox == BBox(null, null, null, null)

Init ==
    /\ variant \in Variants
    /\ loopState = "STOPPED"
    /\ now = StartTime
    /\ isHeadTracking = FALSE
    /\ baselineFaceWidth = null
    /\ calibratedDistance = DefaultDistance(variant)
    /\ headPosition = Vec3(Zero, Zero, DefaultDistance(variant))
    /\ lastValidHeadPosition = Vec3(Zero, Zero, DefaultDistance(variant))
    /\ hasTrackedAtLeastOnce = FALSE
    /\ positionHistory = <<>>
    /\ lastDetectionBbox = NullBbox
    /\ faceDetected = "No"
    /\ trackingStatus = "Off"
    /\ cameraStream = FALSE
    /\ pendingStarts = 0
    /\ inflight = FALSE
    /\ isInterlacedMode \in (IF variant = "corridor" THEN BOOLEAN ELSE {FALSE})
    /\ frame = <<>>
    /\ calibrations = 0
    /\ alertText = ""
    /\ pendingFrames = 0
    /\ catVertexBuffer = FALSE
    /\ autoStart = "none"
    /\ toggleCalls = 0
    /\ trackingAtFirstCall = FALSE

trackingVars == <<baselineFaceWidth, calibratedDistance, headPosition,
                  lastValidHeadPosition, hasTrackedAtLeastOnce, positionHistory,
                  lastDetectionBbox, faceDetected, calibrations>>

toggleVars == <<isHeadTracking, trackingStatus, cameraStream, pendingStarts>>

\* the auto-start position and the call count, which only ToggleSpec moves
sequenceVars == <<autoStart, toggleCalls, trackingAtFirstCall>>

\* alert() is modal: no handler, timer or callback runs while its dialog is up
NoDialog == alertText = ""

\* a requestAnimationFrame that loses the callback
requestAnimationFrameDropped(pending) == pending

\* requestAnimationFrame(animate): one more callback waits for the next frame
requestAnimationFrame(pending) == pending + 1

\* the callbacks waiting when a display frame starts all run before the ones
\* they schedule; each is animate(), which calls requestAnimationFrame once
RECURSIVE RunCallbacks(_)
RunCallbacks(pending) ==
    IF pending = 0 THEN 0 ELSE requestAnimationFrame(RunCallbacks(pending - 1))

\* a 'load' handler that calls animate() whatever initWebGL() returns
LoadAnimatingAnyway(webglOk) ==
    /\ NoDialog
    /\ loopState = "STOPPED"
    /\ variant = "glb" => webglOk
    /\ loopState' = IF webglOk THEN "RUNNING" ELSE "FAILED"
    /\ frame' = IF webglOk
                THEN RenderTick(variant, headPosition, isInterlacedMode, catVertexBuffer)
                ELSE <<>>
    /\ pendingFrames' = requestAnimationFrame(pendingFrames)
    /\ alertText' = IF webglOk THEN "" ELSE "WebGL not supported"
    /\ UNCHANGED sequenceVars
    /\ UNCHANGED <<variant, now, trackingVars, toggleVars, inflight, isInterlacedMode,
                   catVertexBuffer>>

\* the 'load' handler: initWebGL() (or initThreeJS()), initializeFaceDetection(),
\* animate(); webglOk is what initWebGL() returns
Load(webglOk) ==
    /\ NoDialog
    /\ loopState = "STOPPED"
    /\ variant = "glb" => webglOk
    /\ loopState' = IF webglOk THEN "RUNNING" ELSE "FAILED"
    /\ frame' = IF webglOk
                THEN RenderTick(variant, headPosition, isInterlacedMode, catVertexBuffer)
                ELSE <<>>
    /\ pendingFrames' = IF webglOk THEN requestAnimationFrame(pendingFrames)
                        ELSE pendingFrames
    /\ alertText' = IF webglOk THEN "" ELSE "WebGL not supported"
    /\ UNCHANGED sequenceVars
    /\ UNCHANGED <<variant, now, trackingVars, toggleVars, inflight, isInterlacedMode,
                   catVertexBuffer>>

\* an animate() that recentres the head position when no detector result is
\* waiting
AnimateRecentring ==
    /\ NoDialog
    /\ loopState = "RUNNING"
    /\ pendingFrames > 0
    /\ frame' = RenderTick(variant, headPosition, isInterlacedMode, catVertexBuffer)
    /\ pendingFrames' = RunCallbacks(pendingFrames)
    /\ headPosition' = IF inflight THEN headPosition
                       ELSE Vec3(Zero, Zero, DefaultDistance(variant))
    /\ UNCHANGED alertText
    /\ UNCHANGED sequenceVars
    /\ UNCHANGED <<variant, loopState, now, baselineFaceWidth, calibratedDistance,
                   lastValidHeadPosition, hasTrackedAtLeastOnce, positionHistory,
                   lastDetectionBbox, faceDetected, calibrations, toggleVars, inflight,
                   isInterlacedMode, catVertexBuffer>>

\* the display presents a frame: the pending animate() callbacks are taken off
\* the list and run, each one a render tick that asks for the next frame
\* (the Three.js variant asks first and renders after)
Animate ==
    /\ NoDialog
    /\ loopState = "RUNNING"
    /\ pendingFrames > 0
    /\ frame' = RenderTick(variant, headPosition, isInterlacedMode, catVertexBuffer)
    /\ pendingFrames' = RunCallbacks(pendingFrames)
    /\ UNCHANGED alertText
    /\ UNCHANGED sequenceVars
    /\ UNCHANGED <<variant, loopState, now, trackingVars, toggleVars, inflight,
                   isInterlacedMode, catVertexBuffer>>

\* loadCatSTL(): the fetch of the cat model resolves and the buffers are made
\* (a failed fetch is caught and leaves everything as it is)
LoadCatSTLResolved ==
    /\ NoDialog
    /\ loopState = "RUNNING"
    /\ variant = "shoebox"
    /\ ~catVertexBuffer
    /\ catVertexBuffer' = TRUE
    /\ frame' = <<>>
    /\ UNCHANGED alertText
    /\ UNCHANGED sequenceVars
    /\ UNCHANGED <<variant, loopState, now, trackingVars, toggleVars, inflight,
                   isInterlacedMode, pendingFrames>>

\* a toggleInterlacedMode() that also restarts the position filter
ToggleInterlacedModeResetting(checked) ==
    /\ NoDialog
    /\ loopState # "STOPPED"
    /\ checked # isInterlacedMode
    /\ isInterlacedMode' = checked
    /\ positionHistory' = <<>>
    /\ frame' = <<>>
    /\ UNCHANGED alertText
    /\ UNCHANGED sequenceVars
    /\ UNCHANGED <<variant, loopState, pendingFrames, catVertexBuffer, now,
                   baselineFaceWidth, calibratedDistance, headPosition,
                   lastValidHeadPosition, hasTrackedAtLeastOnce, lastDetectionBbox,
                   faceDetected, calibrations, toggleVars, inflight>>

\* toggleInterlacedMode(): the checkbox's state is copied into the flag
\* (a change event that leaves the flag as it is changes nothing: left out)
ToggleInterlacedMode(checked) ==
    /\ NoDialog
    /\ loopState # "STOPPED"
    /\ checked # isInterlacedMode
    /\ isInterlacedMode' = checked
    /\ frame' = <<>>
    /\ UNCHANGED alertText
    /\ UNCHANGED sequenceVars
    /\ UNCHANGED <<variant, loopState, pendingFrames, catVertexBuffer,
                   now, trackingVars, toggleVars, inflight>>

\* Date.now() moves on
AdvanceClock(d) ==
    /\ NoDialog
    /\ loopState # "STOPPED"
    /\ now + d <= StartTime + MaxClockUnits * 150
    /\ now' = now + d
    /\ frame' = <<>>
    /\ UNCHANGED alertText
    /\ UNCHANGED sequenceVars
    /\ UNCHANGED <<variant, loopState, pendingFrames, catVertexBuffer,
                   trackingVars, toggleVars, inflight,
                   isInterlacedMode>>

\* a toggleHeadTracking() that also cancels the pending frame callback
ToggleOffCancellingFrames ==
    /\ NoDialog
    /\ loopState # "STOPPED"
    /\ isHeadTracking
    /\ isHeadTracking' = FALSE
    /\ trackingStatus' = IF variant = "shoebox" /\ hasTrackedAtLeastOnce
                         THEN "Off (using last position)" ELSE "Off"
    /\ headPosition' = IF variant = "shoebox" /\ hasTrackedAtLeastOnce
                       THEN lastValidHeadPosition ELSE headPosition
    /\ frame' = <<>>
    /\ pendingFrames' = 0
    /\ UNCHANGED alertText
    /\ UNCHANGED sequenceVars
    /\ UNCHANGED <<variant, loopState, catVertexBuffer, now, baselineFaceWidth,
                   calibratedDistance, lastValidHeadPosition, hasTrackedAtLeastOnce,
                   positionHistory, lastDetectionBbox, faceDetected, cameraStream,
                   pendingStarts, inflight, isInterlacedMode, calibrations>>

\* toggleHeadTracking() while tracking is on: the else branch
ToggleOff ==
    /\ NoDialog
    /\ loopState # "STOPPED"
    /\ isHeadTracking
    /\ isHeadTracking' = FALSE
    /\ trackingStatus' = IF variant = "shoebox" /\ hasTrackedAtLeastOnce
                         THEN "Off (using last position)" ELSE "Off"
    /\ headPosition' = IF variant = "shoebox" /\ hasTrackedAtLeastOnce
                       THEN lastValidHeadPosition ELSE headPosition
    /\ frame' = <<>>
    /\ UNCHANGED alertText
    /\ UNCHANGED sequenceVars
    /\ UNCHANGED <<variant, loopState, pendingFrames, catVertexBuffer,
                   now, baselineFaceWidth, calibratedDistance,
                   lastValidHeadPosition, hasTrackedAtLeastOnce, positionHistory,
                   lastDetectionBbox, faceDetected, cameraStream, pendingStarts,
                   inflight, isInterlacedMode, calibrations>>

\* toggleHeadTracking() while tracking is off, the camera already streaming
\* and the video ready: no await, tracking is on when the call returns
ToggleOnSync ==
    /\ NoDialog
    /\ loopState = "RUNNING"
    /\ variant # "glb"
    /\ ~isHeadTracking
    /\ cameraStream
    /\ isHeadTracking' = TRUE
    /\ trackingStatus' = "On"
    /\ frame' = <<>>
    /\ UNCHANGED alertText
    /\ UNCHANGED sequenceVars
    /\ UNCHANGED <<variant, loopState, pendingFrames, catVertexBuffer,
                   now, trackingVars, cameraStream, pendingStarts,
                   inflight, isInterlacedMode>>

\* the fetch of the cat model is taken to resolve before the camera is first
\* started (tracking is started by the user or by a timer 500 ms after load)
SceneLoaded == variant = "shoebox" => catVertexBuffer

\* toggleHeadTracking() while tracking is off: up to `await camera.start()`
\* (the Three.js variant awaits cameraUtils.start() on every call)
ToggleOnAwait ==
    /\ NoDialog
    /\ loopState = "RUNNING"
    /\ SceneLoaded
    /\ ~isHeadTracking
    /\ variant = "glb" \/ ~cameraStream
    /\ pendingStarts < MaxPendingStarts
    /\ pendingStarts' = pendingStarts + 1
    /\ frame' = <<>>
    /\ UNCHANGED alertText
    /\ UNCHANGED sequenceVars
    /\ UNCHANGED <<variant, loopState, pendingFrames, catVertexBuffer,
                   now, trackingVars, isHeadTracking, trackingStatus,
                   cameraStream, inflight, isInterlacedMode>>

\* the awaited camera start resolves: the rest of the try block
CameraStartResolved ==
    /\ NoDialog
    /\ pendingStarts > 0
    /\ pendingStarts' = pendingStarts - 1
    /\ cameraStream' = TRUE
    /\ isHeadTracking' = TRUE
    /\ trackingStatus' = "On"
    /\ frame' = <<>>
    /\ UNCHANGED alertText
    /\ UNCHANGED sequenceVars
    /\ UNCHANGED <<variant, loopState, pendingFrames, catVertexBuffer,
                   now, trackingVars, inflight, isInterlacedMode>>

\* the catch block of a toggleHeadTracking() that marked the camera as
\* started before its start had succeeded
CameraStartRejectedLatching ==
    /\ NoDialog
    /\ pendingStarts > 0
    /\ ~cameraStream
    /\ pendingStarts' = pendingStarts - 1
    /\ trackingStatus' = "Error"
    /\ cameraStream' = TRUE
    /\ frame' = <<>>
    /\ alertText' = IF variant = "glb" THEN "Camera access failed" ELSE ""
    /\ UNCHANGED sequenceVars
    /\ UNCHANGED <<variant, loopState, pendingFrames, catVertexBuffer,
                   now, trackingVars, isHeadTracking, inflight, isInterlacedMode>>

\* the awaited camera start rejects: the catch block
\* (a camera that has streamed once is taken to start again)
CameraStartRejected ==
    /\ NoDialog
    /\ pendingStarts > 0
    /\ ~cameraStream
    /\ pendingStarts' = pendingStarts - 1
    /\ trackingStatus' = "Error"
    /\ frame' = <<>>
    /\ alertText' = IF variant = "glb" THEN "Camera access failed" ELSE ""
    /\ UNCHANGED sequenceVars
    /\ UNCHANGED <<variant, loopState, pendingFrames, catVertexBuffer,
                   now, trackingVars, isHeadTracking, cameraStream,
                   inflight, isInterlacedMode>>

\* toggleHeadTracking() throwing before any await: `camera` was never created
\* (initWebGL failed), or navigator.mediaDevices is missing (Three.js variant)
ToggleOnThrows ==
    /\ NoDialog
    /\ ~isHeadTracking
    /\ \/ loopState = "FAILED"
       \/ loopState = "RUNNING" /\ variant = "glb" /\ ~cameraStream
    /\ trackingStatus' = "Error"
    /\ frame' = <<>>
    /\ alertText' = IF variant = "glb" THEN "Camera access failed" ELSE ""
    /\ UNCHANGED sequenceVars
    /\ UNCHANGED <<variant, loopState, pendingFrames, catVertexBuffer,
                   now, trackingVars, isHeadTracking, cameraStream,
                   pendingStarts, inflight, isInterlacedMode>>

\* the Camera's onFrame callback: if (isHeadTracking) await faceDetection.send()
CameraFrame ==
    /\ NoDialog
    /\ cameraStream
    /\ ~inflight
    /\ isHeadTracking
    /\ inflight' = TRUE
    /\ frame' = <<>>
    /\ UNCHANGED alertText
    /\ UNCHANGED sequenceVars
    /\ UNCHANGED <<variant, loopState, pendingFrames, catVertexBuffer,
                   now, trackingVars, toggleVars, isInterlacedMode>>

\* an inference takes time: Date.now() has moved on since the last push;
\* the last clock value of a run is left to reads
InferenceTakesTime ==
    IF positionHistory = <<>> THEN TRUE
    ELSE positionHistory[Len(positionHistory)].timestamp < now
         /\ now < StartTime + MaxClockUnits * 150

\* onFaceResults(results) with results.detections[0].boundingBox = bbox
OnFaceResultsDetection(bbox) ==
    /\ NoDialog
    /\ inflight
    /\ InferenceTakesTime
    /\ LET u == UpdateHeadPosition(variant,
                    Mul(bbox.xCenter, Int2Rat(VIDEO_WIDTH)),
                    Mul(bbox.yCenter, Int2Rat(VIDEO_HEIGHT)),
                    Mul(bbox.width, Int2Rat(VIDEO_WIDTH)),
                    baselineFaceWidth, calibratedDistance, positionHistory, now)
       IN  /\ Len(u.positionHistory) <= MaxHistory
           /\ baselineFaceWidth' = u.baselineFaceWidth
           /\ positionHistory' = u.positionHistory
           /\ headPosition' = u.headPosition
           /\ lastValidHeadPosition' = IF KeepsLastValid(variant) THEN u.headPosition
                                       ELSE lastValidHeadPosition
    /\ hasTrackedAtLeastOnce' = (KeepsLastValid(variant) \/ hasTrackedAtLeastOnce)
    /\ lastDetectionBbox' = bbox
    /\ faceDetected' = "Yes"
    /\ inflight' = FALSE
    /\ frame' = <<>>
    /\ UNCHANGED alertText
    /\ UNCHANGED sequenceVars
    /\ UNCHANGED <<variant, loopState, pendingFrames, catVertexBuffer,
                   now, calibratedDistance, toggleVars,
                   isInterlacedMode, calibrations>>

\* onFaceResults(results) with no detection
OnFaceResultsEmpty ==
    /\ NoDialog
    /\ inflight
    /\ faceDetected' = IF KeepsLastValid(variant) THEN "No (using last position)" ELSE "No"
    /\ lastDetectionBbox' = NullBbox
    /\ headPosition' = IF KeepsLastValid(variant) /\ hasTrackedAtLeastOnce
                       THEN lastValidHeadPosition ELSE headPosition
    /\ inflight' = FALSE
    /\ frame' = <<>>
    /\ UNCHANGED alertText
    /\ UNCHANGED sequenceVars
    /\ UNCHANGED <<variant, loopState, pendingFrames, catVertexBuffer,
                   now, baselineFaceWidth, calibratedDistance,
                   lastValidHeadPosition, hasTrackedAtLeastOnce, positionHistory,
                   toggleVars, isInterlacedMode, calibrations>>

\* if (userDistance && !isNaN(userDistance)) { ... if (bbox) { ...
CalibrationApplies(answer) ==
    /\ answer.truthy /\ ~IsNaN(answer.numeric)
    /\ KeepsLastBbox(variant) => lastDetectionBbox # NullBbox

\* a first test that looks at the tracking flag alone
CalibrationGateTrackingOnly(tracking, detectedText) == tracking

\* if (isHeadTracking && faceDetected.textContent === 'Yes')
CalibrationGate(tracking, detectedText) == tracking /\ detectedText = "Yes"

\* calibrateDistance() passes its first test and prompt() returns `answer`
CalibrateAccepted(answer) ==
    /\ NoDialog
    /\ loopState # "STOPPED"
    /\ CalibrationGate(isHeadTracking, faceDetected)
    /\ CalibrationApplies(answer) => calibrations < MaxCalibrations
    /\ LET applies == CalibrationApplies(answer)
       IN  /\ calibrations' = IF applies THEN calibrations + 1 ELSE calibrations
           /\ baselineFaceWidth' =
                  IF applies /\ KeepsLastBbox(variant)
                  THEN Mul(lastDetectionBbox.width, Int2Rat(VIDEO_WIDTH))
                  ELSE baselineFaceWidth
           /\ calibratedDistance' = IF applies THEN answer.parsed ELSE calibratedDistance
           /\ headPosition' = IF applies THEN [headPosition EXCEPT !.z = answer.parsed]
                              ELSE headPosition
           /\ alertText' = IF applies THEN "Distance calibrated" ELSE ""
           /\ UNCHANGED sequenceVars
    /\ frame' = <<>>
    /\ UNCHANGED <<variant, loopState, pendingFrames, catVertexBuffer,
                   now, lastValidHeadPosition, hasTrackedAtLeastOnce,
                   positionHistory, lastDetectionBbox, faceDetected, toggleVars, inflight,
                   isInterlacedMode>>

\* calibrateDistance() fails its first test: the alert, nothing else
CalibrateRejected ==
    /\ NoDialog
    /\ loopState # "STOPPED"
    /\ ~CalibrationGate(isHeadTracking, faceDetected)
    /\ frame' = <<>>
    /\ alertText' = "Please start head tracking and ensure your face is detected first"
    /\ UNCHANGED sequenceVars
    /\ UNCHANGED <<variant, loopState, pendingFrames, catVertexBuffer,
                   now, trackingVars, toggleVars, inflight,
                   isInterlacedMode>>

\* the user dismisses the alert() dialog and the handler that raised it returns
DismissAlert ==
    /\ alertText # ""
    /\ alertText' = ""
    /\ UNCHANGED sequenceVars
    /\ UNCHANGED <<variant, loopState, now, trackingVars, toggleVars, inflight,
                   isInterlacedMode, frame, pendingFrames, catVertexBuffer>>

Next ==
    \/ DismissAlert
    \/ \E ok \in BOOLEAN : Load(ok)
    \/ Animate
    \/ LoadCatSTLResolved
    \/ \E checked \in BOOLEAN : ToggleInterlacedMode(checked)
    \/ \E d \in ClockSteps : AdvanceClock(d)
    \/ ToggleOff
    \/ ToggleOnSync
    \/ ToggleOnAwait
    \/ CameraStartResolved
    \/ CameraStartRejected
    \/ ToggleOnThrows
    \/ CameraFrame
    \/ \E bbox \in Boxes : OnFaceResultsDetection(bbox)
    \/ OnFaceResultsEmpty
    \/ \E answer \in PromptAnswers : CalibrateAccepted(answer)
    \/ CalibrateRejected

Spec == Init /\ [][Next]_vars

\* the faces and the prompt() answer of a session without degenerate input
SessionBoxes == { bbox \in Boxes : bbox.width # Zero }
SessionAnswers == { answer \in PromptAnswers : answer.text = "50" }

\* the handlers of a session in which Date.now() stays within one reading
SessionNext ==
    \/ DismissAlert
    \/ \E ok \in BOOLEAN : Load(ok)
    \/ Animate
    \/ LoadCatSTLResolved
    \/ \E checked \in BOOLEAN : ToggleInterlacedMode(checked)
    \/ ToggleOff
    \/ ToggleOnSync
    \/ ToggleOnAwait
    \/ CameraStartResolved
    \/ CameraStartRejected
    \/ ToggleOnThrows
    \/ CameraFrame
    \/ \E bbox \in SessionBoxes : OnFaceResultsDetection(bbox)
    \/ OnFaceResultsEmpty
    \/ \E answer \in SessionAnswers : CalibrateAccepted(answer)
    \/ CalibrateRejected

\* ENABLED <<Animate>>_vars: a frame callback is pending and running it
\* changes something
AnimateReady ==
    /\ NoDialog
    /\ loopState = "RUNNING"
    /\ pendingFrames > 0
    /\ \/ frame # RenderTick(variant, headPosition, isInterlacedMode, catVertexBuffer)
       \/ pendingFrames # RunCallbacks(pendingFrames)

\* such a session with a user who eventually dismisses each alert() dialog,
\* on a display that keeps presenting frames: the browser runs the pending
\* frame callbacks at every rendering opportunity, whatever other events
\* arrive, so Animate is strongly fair (SF_vars(Animate), written out with
\* its enabling condition)
FairSession ==
    /\ Init /\ [][SessionNext]_vars
    /\ WF_vars(DismissAlert)
    /\ (<>[]~AnimateReady) \/ ([]<><<Animate>>_vars)

----------------------------------------------------------------------------
(* The position filter in floating point                                   *)
(*                                                                         *)
(* The same smoothing code with every arithmetic result rounded to the     *)
(* nearest number of SignificandBits binary digits, ties to even, as IEEE  *)
(* arithmetic rounds to 53 (the exponent range is not limited).  It is fed *)
(* one face position over and over.                                        *)

\* 2^e as a number
PowerOfTwo(e) == IF e >= 0 THEN Int2Rat(2 ^ e) ELSE Rat(1, 2 ^ (-e))

\* (n / d) * 2^e for n, d > 0, rounded to SignificandBits binary digits
RECURSIVE RoundSignificand(_, _, _)
RoundSignificand(n, d, e) ==
    IF n >= d * 2 ^ SignificandBits THEN RoundSignificand(n, 2 * d, e + 1)
    ELSE IF n < d * 2 ^ (SignificandBits - 1) THEN RoundSignificand(2 * n, d, e - 1)
    ELSE LET k == n \div d
             r == n % d
             m == IF 2 * r > d \/ (2 * r = d /\ k % 2 = 1) THEN k + 1 ELSE k
         IN  Mul(Int2Rat(m), PowerOfTwo(e))

\* the Number nearest to the exact result a
ToDouble(a) ==
    IF ~IsFinite(a) \/ a.n = 0 THEN a
    ELSE IF a.n > 0 THEN RoundSignificand(a.n, a.d, 0)
    ELSE Neg(RoundSignificand(-a.n, a.d, 0))

\* the forEach loop in floating point
RECURSIVE WeightedSumsRounded(_, _, _)
WeightedSumsRounded(h, currentTime, acc) ==
    IF h = <<>> THEN acc
    ELSE LET pos == Head(h)
             age == Int2Rat(currentTime - pos.timestamp)
             weight == ToDouble(Sub(One, ToDouble(Div(age, Int2Rat(SMOOTHING_WINDOW_MS)))))
         IN  WeightedSumsRounded(Tail(h), currentTime,
                 [x |-> ToDouble(Add(acc.x, ToDouble(Mul(pos.x, weight)))),
                  y |-> ToDouble(Add(acc.y, ToDouble(Mul(pos.y, weight)))),
                  z |-> ToDouble(Add(acc.z, ToDouble(Mul(pos.z, weight)))),
                  totalWeight |-> ToDouble(Add(acc.totalWeight, weight))])

\* the for..of loop of the Three.js variant in floating point
RECURSIVE PlainSumsRounded(_, _)
PlainSumsRounded(h, acc) ==
    IF h = <<>> THEN acc
    ELSE PlainSumsRounded(Tail(h),
             Vec3(ToDouble(Add(acc.x, Head(h).x)), ToDouble(Add(acc.y, Head(h).y)),
                  ToDouble(Add(acc.z, Head(h).z))))

\* the smoothing policy of variant v in floating point
EstimateRounded(v, h, currentTime, raw) ==
    IF v = "glb"
    THEN IF Len(h) > 0
         THEN LET s == PlainSumsRounded(h, Vec3(Zero, Zero, Zero))
                  k == Int2Rat(Len(h))
              IN  Vec3(ToDouble(Div(s.x, k)), ToDouble(Div(s.y, k)), ToDouble(Div(s.z, k)))
         ELSE raw
    ELSE LET s == WeightedSumsRounded(h, currentTime,
                      [x |-> Zero, y |-> Zero, z |-> Zero, totalWeight |-> Zero])
         IN  IF Gt(s.totalWeight, Zero)
             THEN Vec3(ToDouble(Div(s.x, s.totalWeight)), ToDouble(Div(s.y, s.totalWeight)),
                       ToDouble(Div(s.z, s.totalWeight)))
             ELSE raw

\* the coordinates fed to the filter: the numbers of SignificandBits digits
\* between 1 and 2 and between 16 and 32, of either sign
Coordinates ==
    { Mul(Int2Rat(sign * k), PowerOfTwo(e - (SignificandBits - 1))) :
          sign \in {-1, 1},
          k \in (2 ^ (SignificandBits - 1))..(2 ^ SignificandBits - 1),
          e \in {0, 4} }

\* ms between two results of the detector
FrameSteps == {33, 50}

\* the filter holds its first sample (c, c, c)
ConstantInputInit ==
    /\ variant \in Variants
    /\ loopState = "RUNNING"
    /\ now = StartTime
    /\ isHeadTracking = TRUE
    /\ \E c \in Coordinates :
           /\ headPosition = Vec3(c, c, c)
           /\ lastValidHeadPosition = Vec3(c, c, c)
           /\ positionHistory = << Sample(c, c, c, StartTime) >>
    /\ baselineFaceWidth = null
    /\ calibratedDistance = DefaultDistance(variant)
    /\ hasTrackedAtLeastOnce = TRUE
    /\ lastDetectionBbox = NullBbox
    /\ faceDetected = "Yes"
    /\ trackingStatus = "Active"
    /\ cameraStream = TRUE
    /\ pendingStarts = 0
    /\ inflight = FALSE
    /\ isInterlacedMode = FALSE
    /\ frame = <<>>
    /\ calibrations = 0
    /\ alertText = ""
    /\ pendingFrames = 1
    /\ catVertexBuffer = FALSE
    /\ autoStart = "none"
    /\ toggleCalls = 0
    /\ trackingAtFirstCall = FALSE

\* the part of updateHeadPosition from the push on, d ms after the last
\* call, for a raw position equal to the samples already held
PushSameSample(d) ==
    LET currentTime == now + d
        last == positionHistory[Len(positionHistory)]
        pushed == Append(positionHistory, Sample(last.x, last.y, last.z, currentTime))
        kept == EvictOld(pushed, currentTime - SMOOTHING_WINDOW_MS)
    IN  /\ Len(kept) <= MaxSamples
        /\ now' = currentTime
        /\ positionHistory' = kept
        /\ headPosition' = EstimateRounded(variant, kept, currentTime,
                                           Vec3(last.x, last.y, last.z))
        /\ lastValidHeadPosition' = IF KeepsLastValid(variant) THEN headPosition'
                                    ELSE lastValidHeadPosition
        /\ UNCHANGED <<variant, loopState, isHeadTracking, baselineFaceWidth,
                       calibratedDistance, hasTrackedAtLeastOnce, lastDetectionBbox,
                       faceDetected, trackingStatus, cameraStream, pendingStarts,
                       inflight, isInterlacedMode, frame, calibrations, alertText,
                       pendingFrames, catVertexBuffer, autoStart, toggleCalls,
                       trackingAtFirstCall>>

ConstantInputNext == \E d \in FrameSteps : PushSameSample(d)

ConstantInputSpec == ConstantInputInit /\ [][ConstantInputNext]_vars

----------------------------------------------------------------------------
(* The tracking toggle against the auto-start timers                       *)
(* A page that has just loaded, with a camera that starts whenever it is   *)
(* asked to.  The load handler's timers call toggleHeadTracking() while    *)
(* the user clicks the tracking button; the clicks are counted.            *)

\* one toggleHeadTracking() call, from tracking t and camera stream s, up to
\* its first await or, when it awaits nothing, its return
CallToggle(t, s) ==
    IF t THEN [tracking |-> FALSE, awaits |-> FALSE]
    ELSE IF variant # "glb" /\ s THEN [tracking |-> TRUE, awaits |-> FALSE]
    ELSE [tracking |-> FALSE, awaits |-> TRUE]

\* the status text after a call that went from tracking `before` to `after`
StatusAfter(before, after) ==
    IF after THEN "On"
    ELSE IF ~before THEN trackingStatus
    ELSE IF variant = "shoebox" /\ hasTrackedAtLeastOnce
         THEN "Off (using last position)" ELSE "Off"

\* the head position after such a call (the shoebox variant's else branch
\* goes back to the last valid position)
HeadAfter(before, after) ==
    IF before /\ ~after /\ variant = "shoebox" /\ hasTrackedAtLeastOnce
    THEN lastValidHeadPosition ELSE headPosition

\* the auto-start positions in which a timer call awaits camera start
AutoStartAwaits == {"awaitFirst", "awaitOff", "awaitOn", "awaitRetry"}

ToggleInit ==
    /\ variant \in Variants
    /\ loopState = "RUNNING"
    /\ now = StartTime
    /\ autoStart \in {"firstTimer", "none"}
    /\ isHeadTracking \in (IF autoStart = "none" THEN BOOLEAN ELSE {FALSE})
    /\ cameraStream \in (IF autoStart = "none" /\ ~isHeadTracking
                         THEN BOOLEAN ELSE {isHeadTracking})
    /\ baselineFaceWidth = null
    /\ calibratedDistance = DefaultDistance(variant)
    /\ headPosition = Vec3(Zero, Zero, DefaultDistance(variant))
    /\ lastValidHeadPosition = Vec3(Zero, Zero, DefaultDistance(variant))
    /\ hasTrackedAtLeastOnce = FALSE
    /\ positionHistory = <<>>
    /\ lastDetectionBbox = NullBbox
    /\ faceDetected = "No"
    /\ trackingStatus = IF isHeadTracking THEN "On" ELSE "Off"
    /\ pendingStarts = 0
    /\ inflight = FALSE
    /\ isInterlacedMode \in (IF variant = "corridor" THEN BOOLEAN ELSE {FALSE})
    /\ frame = <<>>
    /\ calibrations = 0
    /\ alertText = ""
    /\ pendingFrames = 1
    /\ catVertexBuffer = (variant = "shoebox")
    /\ toggleCalls = 0
    /\ trackingAtFirstCall = FALSE

\* what no toggleHeadTracking() call and no timer of the load handler writes
ToggleFrame ==
    UNCHANGED <<variant, loopState, now, baselineFaceWidth, calibratedDistance,
                lastValidHeadPosition, hasTrackedAtLeastOnce, positionHistory,
                lastDetectionBbox, faceDetected, inflight, isInterlacedMode,
                calibrations, alertText, pendingFrames, catVertexBuffer>>

\* a click on the tracking button: toggleHeadTracking() up to its first await
UserToggle ==
    LET call == CallToggle(isHeadTracking, cameraStream)
    IN  /\ toggleCalls < MaxToggleCalls
        /\ toggleCalls' = toggleCalls + 1
        /\ trackingAtFirstCall' = IF toggleCalls = 0 THEN isHeadTracking
                                  ELSE trackingAtFirstCall
        /\ isHeadTracking' = call.tracking
        /\ trackingStatus' = StatusAfter(isHeadTracking, call.tracking)
        /\ headPosition' = HeadAfter(isHeadTracking, call.tracking)
        /\ pendingStarts' = IF call.awaits THEN pendingStarts + 1 ELSE pendingStarts
        /\ frame' = <<>>
        /\ UNCHANGED <<cameraStream, autoStart>>
        /\ ToggleFrame

\* the camera start awaited by a click resolves: the rest of the try block
UserStartResolved ==
    /\ pendingStarts > (IF autoStart \in AutoStartAwaits THEN 1 ELSE 0)
    /\ pendingStarts' = pendingStarts - 1
    /\ cameraStream' = TRUE
    /\ isHeadTracking' = TRUE
    /\ trackingStatus' = "On"
    /\ frame' = <<>>
    /\ UNCHANGED <<headPosition, autoStart, toggleCalls, trackingAtFirstCall>>
    /\ ToggleFrame

\* the load handler's first timer: toggleHeadTracking() up to its first await;
\* when the call returns, the next timer is set
AutoStartFirst ==
    LET call == CallToggle(isHeadTracking, cameraStream)
    IN  /\ autoStart = "firstTimer"
        /\ autoStart' = IF call.awaits THEN "awaitFirst"
                        ELSE IF variant = "glb" THEN "retryTimer" ELSE "secondTimer"
        /\ isHeadTracking' = call.tracking
        /\ trackingStatus' = StatusAfter(isHeadTracking, call.tracking)
        /\ headPosition' = HeadAfter(isHeadTracking, call.tracking)
        /\ pendingStarts' = IF call.awaits THEN pendingStarts + 1 ELSE pendingStarts
        /\ frame' = <<>>
        /\ UNCHANGED <<cameraStream, toggleCalls, trackingAtFirstCall>>
        /\ ToggleFrame

\* the second timer of the WebGL variants: `await toggleHeadTracking()` twice,
\* commented "off" and "on"; the second call starts when the first returns
AutoStartSecond ==
    LET off == CallToggle(isHeadTracking, cameraStream)
        on == CallToggle(off.tracking, cameraStream)
    IN  /\ autoStart = "secondTimer"
        /\ autoStart' = IF off.awaits THEN "awaitOff"
                        ELSE IF on.awaits THEN "awaitOn" ELSE "done"
        /\ isHeadTracking' = IF off.awaits THEN off.tracking ELSE on.tracking
        /\ trackingStatus' = IF off.awaits \/ on.awaits
                             THEN StatusAfter(isHeadTracking, off.tracking)
                             ELSE StatusAfter(off.tracking, on.tracking)
        /\ headPosition' = IF off.awaits \/ on.awaits \/ ~off.tracking
                           THEN HeadAfter(isHeadTracking, off.tracking)
                           ELSE HeadAfter(off.tracking, on.tracking)
        /\ pendingStarts' = IF off.awaits \/ on.awaits THEN pendingStarts + 1
                            ELSE pendingStarts
        /\ frame' = <<>>
        /\ UNCHANGED <<cameraStream, toggleCalls, trackingAtFirstCall>>
        /\ ToggleFrame

\* the second timer of the Three.js variant: one more call, made only when
\* tracking is off
AutoStartRetry ==
    /\ autoStart = "retryTimer"
    /\ autoStart' = IF isHeadTracking THEN "done" ELSE "awaitRetry"
    /\ pendingStarts' = IF isHeadTracking THEN pendingStarts ELSE pendingStarts + 1
    /\ frame' = <<>>
    /\ UNCHANGED <<isHeadTracking, trackingStatus, headPosition, cameraStream,
                   toggleCalls, trackingAtFirstCall>>
    /\ ToggleFrame

\* the camera start awaited by a timer's call resolves: the rest of the try
\* block, and then what the timer's callback does next
AutoStartResolved ==
    /\ autoStart \in AutoStartAwaits
    /\ pendingStarts' = pendingStarts - 1
    /\ cameraStream' = TRUE
    /\ autoStart' = IF autoStart = "awaitFirst"
                    THEN IF variant = "glb" THEN "retryTimer" ELSE "secondTimer"
                    ELSE "done"
    /\ isHeadTracking' = (autoStart # "awaitOff")
    /\ trackingStatus' = IF autoStart = "awaitOff" THEN StatusAfter(TRUE, FALSE)
                         ELSE "On"
    /\ headPosition' = IF autoStart = "awaitOff" THEN HeadAfter(TRUE, FALSE)
                       ELSE headPosition
    /\ frame' = <<>>
    /\ UNCHANGED <<toggleCalls, trackingAtFirstCall>>
    /\ ToggleFrame

ToggleNext ==
    \/ UserToggle
    \/ UserStartResolved
    \/ AutoStartFirst
    \/ AutoStartSecond
    \/ AutoStartRetry
    \/ AutoStartResolved

ToggleSpec == ToggleInit /\ [][ToggleNext]_vars

----------------------------------------------------------------------------
(* Properties                                                              *)

\* the position of a sample
PositionOf(s) == Vec3(s.x, s.y, s.z)

\* the sample pushed last
LastSample == positionHistory[Len(positionHistory)]

\* the estimate updateHeadPosition computed when it pushed the last sample:
\* the history is only ever changed by that call
EstimateAtLastPush ==
    Estimate(variant, positionHistory, LastSample.timestamp, PositionOf(LastSample))

\* no detection for longer than the smoothing window
DetectionGap ==
    /\ positionHistory # <<>>
    /\ LastSample.timestamp < now - SMOOTHING_WINDOW_MS

\* every sample before the last one is older than the window at the last push
OnlyLastSampleInWindow ==
    /\ positionHistory # <<>>
    /\ \A i \in 1..(Len(positionHistory) - 1) :
           positionHistory[i].timestamp < LastSample.timestamp - SMOOTHING_WINDOW_MS

\* the eye is in front of the screen plane
InFront(eye) == Gt(eye.z, Zero)

\* the four corners of the physical screen rectangle, as signs of (x, y)
ScreenCorners ==
    { [sx |-> sx, sy |-> sy] : sx \in {-1, 1}, sy \in {-1, 1} }

\* the corner c of the screen lands on the corner c of the viewport
CornerOnViewportCorner(v, pass, c) ==
    LET p == NDC(MvpMatrix(v, pass),
                 Mul(Int2Rat(c.sx), HalfScreenWidth(v)),
                 Mul(Int2Rat(c.sy), HalfScreenHeight(v)), Zero)
    IN  p.x = Int2Rat(c.sx) /\ p.y = Int2Rat(c.sy)

\* C1: in every variant, each eye pass drawn from an eye in front of the
\* screen plane maps the edges of the physical screen rectangle at z = 0
\* exactly onto the edges of the viewport.
C1_ScreenFillsViewport ==
    \A i \in 1..Len(frame) :
        InFront(frame[i].eye) =>
            \A c \in ScreenCorners : CornerOnViewportCorner(variant, frame[i], c)

\* C2: every projection builder computes, for the eye position it is given,
\* left = near*(-W/2 - x)/z, right = near*(W/2 - x)/z, bottom = near*(-H/2 - y)/z
\* and top = near*(H/2 - y)/z.
C2_BuilderUsesSimilarTriangles ==
    \A i \in 1..Len(frame) :
        LET built == IF variant = "glb"
                     THEN ThreeRender("MONO", CameraFromHead(headPosition).position,
                                      CameraFromHead(headPosition).frustum, <<>>)
                     ELSE frame[i]
        IN  built.frustum =
                SimilarTriangles(built.frustum.near, built.frustum.far,
                                 HalfScreenWidth(variant), HalfScreenHeight(variant),
                                 built.eye.x, built.eye.y, built.eye.z)

\* C3: headPosition.z is strictly positive at all times.
C3_DepthPositive == Gt(headPosition.z, Zero)

\* C4: a detection whose bounding box has width 0 is skipped: nothing is
\* divided by it, no sample is pushed, and the baseline and the head position
\* are left as they were.
C4_ZeroWidthSkipped ==
    [][\A bbox \in Boxes :
           (bbox.width = Zero /\ OnFaceResultsDetection(bbox)) =>
               UNCHANGED <<positionHistory, headPosition, baselineFaceWidth>>]_vars

\* C5: a detector result without a face pushes no sample and leaves
\* headPosition exactly as it was.
C5_EmptyResultHoldsPosition ==
    [][OnFaceResultsEmpty => UNCHANGED <<positionHistory, headPosition>>]_vars

\* C6: from the moment tracking is toggled off until it is toggled
\* on again, no sample is pushed into the position history.
C6_OffGatesPushes ==
    [][~isHeadTracking => positionHistory' = positionHistory]_vars

C8_EstimateIsNewSample ==
    OnlyLastSampleInWindow => headPosition = PositionOf(LastSample)

\* C8 (amended): when a sample is pushed after every earlier sample has left
\* the window, the estimate equals that sample exactly in x and y, and in z
\* until a calibration overwrites headPosition.z with the calibrated distance.
C8_EstimateIsNewSampleUntilCalibrated ==
    OnlyLastSampleInWindow =>
        /\ headPosition.x = LastSample.x
        /\ headPosition.y = LastSample.y
        /\ headPosition.z \in {LastSample.z, calibratedDistance}

\* C8 witness: a single sample is left, read after its push, and the baseline
\* is not its face width: an earlier sample set the baseline and was evicted.
C8_Witness ==
    /\ variant = "corridor"
    /\ OnlyLastSampleInWindow
    /\ Len(positionHistory) = 1
    /\ LastSample.timestamp < now
    /\ calibratedDistance = DefaultDistance(variant)
    /\ lastDetectionBbox # NullBbox
    /\ Truthy(baselineFaceWidth)
    /\ baselineFaceWidth # Mul(lastDetectionBbox.width, Int2Rat(VIDEO_WIDTH))
    /\ headPosition = PositionOf(LastSample)

\* C9: after every updateHeadPosition call the history is ordered by
\* timestamp and holds no sample older than the window at the time of the
\* call, so it never outgrows the samples of the last 200 ms.
C9_HistorySortedAndRecent ==
    /\ \A i \in 1..Len(positionHistory) : \A j \in i..Len(positionHistory) :
           positionHistory[i].timestamp <= positionHistory[j].timestamp
    /\ \A i \in 1..Len(positionHistory) :
           /\ positionHistory[i].timestamp >= LastSample.timestamp - SMOOTHING_WINDOW_MS
           /\ positionHistory[i].timestamp <= now

\* C9 witness: two samples of the 80 px face are kept, the older one still
\* inside the window, while the uncalibrated baseline is still the 160 px of
\* a first sample that has been evicted.
C9_Witness ==
    /\ Len(positionHistory) = 2
    /\ positionHistory[1].timestamp > StartTime
    /\ positionHistory[1].timestamp < LastSample.timestamp
    /\ calibratedDistance = DefaultDistance(variant)
    /\ baselineFaceWidth = Int2Rat(160)
    /\ positionHistory[1].z = Mul(Int2Rat(2), calibratedDistance)
    /\ LastSample.z = Mul(Int2Rat(2), calibratedDistance)

\* C10: a successful calibrateDistance(D) sets calibratedDistance to D and
\* overwrites baselineFaceWidth with the face width observed at that moment,
\* so that the next detection of that same face width gives a sample z = D
\* (stated for an observed face of positive width).
C10_CalibrationRebasesDepth ==
    [][\A answer \in PromptAnswers :
           (/\ CalibrationApplies(answer)
            /\ Gt(lastDetectionBbox.width, Zero)
            /\ CalibrateAccepted(answer)) =>
               LET faceWidth == Mul(lastDetectionBbox.width, Int2Rat(VIDEO_WIDTH))
                   next == UpdateHeadPosition(variant,
                               Mul(lastDetectionBbox.xCenter, Int2Rat(VIDEO_WIDTH)),
                               Mul(lastDetectionBbox.yCenter, Int2Rat(VIDEO_HEIGHT)),
                               faceWidth, baselineFaceWidth', calibratedDistance',
                               positionHistory', now')
               IN  /\ calibratedDistance' = answer.parsed
                   /\ baselineFaceWidth' = faceWidth
                   /\ next.sample.z = answer.parsed]_vars

\* the face width, in pixels, of a bounding box
FaceWidthPx(bbox) == Mul(bbox.width, Int2Rat(VIDEO_WIDTH))

\* C11: baselineFaceWidth is set to the face width of the first detection
\* processed; afterwards it changes only through a successful
\* calibrateDistance, and every detection in between computes its depth
\* sample against that unchanged baseline.
C11_BaselineFixedUntilCalibrated ==
    [][/\ \A bbox \in Boxes :
              (baselineFaceWidth = null /\ OnFaceResultsDetection(bbox)) =>
                  baselineFaceWidth' = FaceWidthPx(bbox)
       /\ (baselineFaceWidth # null /\ baselineFaceWidth' # baselineFaceWidth) =>
              \E answer \in PromptAnswers :
                  CalibrationApplies(answer) /\ CalibrateAccepted(answer)
       /\ \A bbox \in Boxes :
              (baselineFaceWidth # null /\ OnFaceResultsDetection(bbox)) =>
                  positionHistory'[Len(positionHistory')].z =
                      Mul(Div(baselineFaceWidth, FaceWidthPx(bbox)), calibratedDistance)]_vars

\* the text of the alert that rejects a calibration
RejectionMessage == "Please start head tracking and ensure your face is detected first"

\* C12: a calibrateDistance call made while tracking is off, or while the
\* last detector result held no face, raises the rejection alert and leaves
\* baselineFaceWidth, calibratedDistance, headPosition and positionHistory
\* as they were.
C12_CalibrationMisuseRejected ==
    [][(/\ ~isHeadTracking \/ lastDetectionBbox = NullBbox
        /\ \/ CalibrateRejected
           \/ \E answer \in PromptAnswers : CalibrateAccepted(answer)) =>
           /\ alertText' = RejectionMessage
           /\ UNCHANGED <<baselineFaceWidth, calibratedDistance, headPosition,
                          positionHistory>>]_vars

\* C12 witness: a calibration was rejected while tracking is on, after a face
\* had been tracked and then lost.
C12_Witness ==
    /\ alertText = RejectionMessage
    /\ isHeadTracking
    /\ lastDetectionBbox = NullBbox
    /\ positionHistory # <<>>

\* face widths, in pixels, the depth mapping is tried on
FaceWidthsPx == {50, 100, 200}

\* the depth of the sample updateHeadPosition pushes for a face of width w,
\* given a baseline and a calibrated distance
SampleDepth(w, baseline, calibrated) ==
    UpdateHeadPosition(variant, Int2Rat(VIDEO_WIDTH \div 2), Int2Rat(VIDEO_HEIGHT \div 2),
                       w, baseline, calibrated, <<>>, now).sample.z

\* C13: with the baseline b > 0 and the calibrated distance d > 0 of any
\* state, a detection of face width w > 0 pushes a sample with z * w = b * d,
\* and z is strictly decreasing in w; with b = 100 px and d = 40 cm,
\* w = 50 px gives 80 cm and w = 200 px gives 20 cm. The sample pushed last
\* satisfies z * w = b * d for as long as no calibration has changed b or d.
C13_DepthInverseToFaceWidth ==
    /\ SampleDepth(Int2Rat(50), Int2Rat(100), Int2Rat(40)) = Int2Rat(80)
    /\ SampleDepth(Int2Rat(200), Int2Rat(100), Int2Rat(40)) = Int2Rat(20)
    /\ (Gt(baselineFaceWidth, Zero) /\ Gt(calibratedDistance, Zero)) =>
           /\ \A w \in FaceWidthsPx :
                  Mul(SampleDepth(Int2Rat(w), baselineFaceWidth, calibratedDistance),
                      Int2Rat(w)) = Mul(baselineFaceWidth, calibratedDistance)
           /\ \A w1, w2 \in FaceWidthsPx :
                  w1 < w2 =>
                      Gt(SampleDepth(Int2Rat(w1), baselineFaceWidth, calibratedDistance),
                         SampleDepth(Int2Rat(w2), baselineFaceWidth, calibratedDistance))
           /\ (faceDetected = "Yes" /\ LastSample.timestamp = now
               /\ Gt(lastDetectionBbox.width, Zero)) =>
                  \/ Mul(LastSample.z, FaceWidthPx(lastDetectionBbox)) =
                         Mul(baselineFaceWidth, calibratedDistance)
                  \/ calibrations > 0

\* C13 witness: the 80 px face has been sampled against the 160 px baseline,
\* at twice the calibrated distance.
C13_Witness ==
    /\ positionHistory # <<>>
    /\ faceDetected = "Yes"
    /\ baselineFaceWidth = Int2Rat(160)
    /\ FaceWidthPx(lastDetectionBbox) = Int2Rat(80)
    /\ Gt(calibratedDistance, Zero)
    /\ LastSample.z = Mul(Int2Rat(2), calibratedDistance)
    /\ LastSample.timestamp = now

\* the GL calls of a frame, in the order they were issued
RECURSIVE GlCalls(_)
GlCalls(passes) ==
    IF passes = <<>> THEN <<>> ELSE Head(passes).gl \o GlCalls(Tail(passes))

\* the framebuffer after `calls`: for each row, the eye passes it holds
\* fragments of (a clear empties the rows inside its scissor box)
RECURSIVE Framebuffer(_, _)
Framebuffer(calls, fb) ==
    IF calls = <<>> THEN fb
    ELSE LET c == Head(calls)
         IN  Framebuffer(Tail(calls),
                 [row \in Rows |->
                     IF row \notin c.rows THEN fb[row]
                     ELSE IF c.op = "clear" THEN {}
                     ELSE fb[row] \cup {c.eyePass}])

\* what the canvas shows once the frame is complete
FinalImage == Framebuffer(GlCalls(frame), [row \in Rows |-> {}])

\* the handler that ran last drew a stereo frame
StereoFrame == Len(frame) = 2

\* the left-eye pass is drawn first and the right-eye pass second
LeftThenRight == frame[1].eyePass = 0 /\ frame[2].eyePass = 1

\* both eyes have rows in the finished frame
BothEyesPresent ==
    /\ \E row \in Rows : 0 \in FinalImage[row]
    /\ \E row \in Rows : 1 \in FinalImage[row]

\* C14 (as stated): in a stereo frame the framebuffer is cleared only before
\* the first draw call of the left-eye pass, the left-eye pass is complete
\* before the right-eye pass starts, and the finished frame holds content of
\* both passes.
C14_NoClearBetweenPasses ==
    StereoFrame =>
        /\ LeftThenRight
        /\ \A i, j \in 1..Len(GlCalls(frame)) :
               (i < j /\ GlCalls(frame)[i].op = "draw") => GlCalls(frame)[j].op # "clear"
        /\ BothEyesPresent

\* C14 (amended): in a stereo frame no clear touches a row that a draw call
\* of the same frame has already written, the left-eye pass is complete
\* before the right-eye pass starts, and the finished frame holds content of
\* both passes.
C14_NoClearOfDrawnRows ==
    StereoFrame =>
        /\ LeftThenRight
        /\ \A i, j \in 1..Len(GlCalls(frame)) :
               (i < j /\ GlCalls(frame)[i].op = "draw" /\ GlCalls(frame)[j].op = "clear") =>
                   GlCalls(frame)[i].rows \cap GlCalls(frame)[j].rows = {}
        /\ BothEyesPresent

\* C14 witness: a stereo frame of the Three.js variant, whose renderer clears
\* the scissored row before each of its row draws, drawn while a face is
\* tracked.
C14_Witness ==
    /\ StereoFrame
    /\ variant = "glb"
    /\ isHeadTracking /\ faceDetected = "Yes"
    /\ \E k \in 2..Len(frame[2].gl) : frame[2].gl[k].op = "clear"
    /\ BothEyesPresent

\* C15: in a stereo frame every draw call of the left-eye pass writes odd
\* rows only, every draw call of the right-eye pass writes even rows only,
\* and no row of the finished frame holds content of both eyes.
C15_EyesOnAlternateRows ==
    StereoFrame =>
        /\ \A k \in 1..Len(GlCalls(frame)) :
               LET c == GlCalls(frame)[k]
               IN  c.op = "draw" =>
                       \A row \in c.rows :
                           IF c.eyePass = 0 THEN ~isEvenRow(row) ELSE isEvenRow(row)
        /\ \A row \in Rows : Cardinality(FinalImage[row]) <= 1

\* C16: in a stereo frame of the variants that separate the eyes by colour,
\* every draw call of the left-eye pass writes the blue channel only and
\* every draw call of the right-eye pass writes the red channel only.
C16_EyesOnSeparateChannels ==
    (StereoFrame /\ variant # "glb") =>
        \A k \in 1..Len(GlCalls(frame)) :
            LET c == GlCalls(frame)[k]
            IN  c.op = "draw" =>
                    c.channels \subseteq (IF c.eyePass = 0 THEN {"b"} ELSE {"r"})

\* an eye position of a pass in centimetres (the Three.js variant places its
\* camera in scene units of sceneScale = 10 cm)
EyeInCm(v, eye) ==
    IF v = "glb"
    THEN Vec3(Mul(eye.x, Int2Rat(10)), Mul(eye.y, Int2Rat(10)), Mul(eye.z, Int2Rat(10)))
    ELSE eye

\* the head position shifted sideways by dx
ShiftedX(head, dx) == Vec3(Add(head.x, dx), head.y, head.z)

\* the point between the eyes that variant v renders from: headPosition, with
\* x and y halved by the sensitivityMultiplier in the Three.js variant
ViewPoint(v, head) ==
    IF v = "glb"
    THEN Vec3(Mul(head.x, Rat(1, 2)), Mul(head.y, Rat(1, 2)), head.z)
    ELSE head

\* the eye passes of the frame are drawn from `centre`: one pass from centre
\* itself, or two from centre -+ EYE_SEPARATION / 2 along x
PassesDrawnAround(centre) ==
    IF StereoFrame
    THEN /\ EyeInCm(variant, frame[1].eye) =
                ShiftedX(centre, Neg(Div(EYE_SEPARATION, Int2Rat(2))))
         /\ EyeInCm(variant, frame[2].eye) =
                ShiftedX(centre, Div(EYE_SEPARATION, Int2Rat(2)))
    ELSE EyeInCm(variant, frame[1].eye) = centre

\* C17 (as stated): a stereo frame is drawn from headPosition -+
\* EYE_SEPARATION / 2 along x, both eyes from the same headPosition, and a
\* mono frame from headPosition itself.
C17_EyesOffsetFromHead ==
    frame # <<>> => PassesDrawnAround(headPosition)

\* C17 (amended): the same, from the point the variant renders from: the
\* headPosition in the WebGL variants, and (x / 2, y / 2, z) of it in the
\* Three.js variant.
C17_EyesOffsetFromViewPoint ==
    frame # <<>> => PassesDrawnAround(ViewPoint(variant, headPosition))

\* C17 witness: a stereo frame of the Three.js variant drawn for a tracked
\* head that is off the screen axis.
C17_Witness ==
    /\ StereoFrame
    /\ variant = "glb"
    /\ positionHistory # <<>>
    /\ headPosition.x # Zero /\ IsFinite(headPosition.x)
    /\ Gt(headPosition.z, Zero) /\ IsFinite(headPosition.z)

\* C18: when headPosition.x = 0, the frustums of the two eyes of a stereo
\* frame are mirror images: the right eye's left is minus the left eye's
\* right, its right is minus the left eye's left, and bottom, top, near and
\* far are the same.
C18_CentredEyesMirrored ==
    (StereoFrame /\ headPosition.x = Zero) =>
        LET l == frame[1].frustum
            r == frame[2].frustum
        IN  /\ r.left = Neg(l.right)
            /\ r.right = Neg(l.left)
            /\ r.bottom = l.bottom /\ r.top = l.top
            /\ r.near = l.near /\ r.far = l.far

\* C18 witness: a stereo frame of the shoebox variant for a tracked head on
\* the vertical centreline, with frustums that are not symmetric themselves.
C18_Witness ==
    /\ StereoFrame
    /\ variant = "shoebox"
    /\ positionHistory # <<>>
    /\ headPosition.x = Zero
    /\ Gt(headPosition.z, Zero) /\ IsFinite(headPosition.z)
    /\ frame[1].frustum.left # Neg(frame[1].frustum.right)
    /\ frame[1].frustum.left # frame[2].frustum.left

\* the render loop runs and tracking is off
RunningUntracked == loopState = "RUNNING" /\ ~isHeadTracking

\* the head positions last known: the estimate computed when the last sample
\* was pushed (z replaced by the calibrated distance if a calibration came
\* after it), or the initial headPosition if no sample was ever pushed
LastKnownHeadPositions ==
    IF positionHistory = <<>>
    THEN { Vec3(Zero, Zero, DefaultDistance(variant)) }
    ELSE { [EstimateAtLastPush EXCEPT !.z = z] :
               z \in {EstimateAtLastPush.z, calibratedDistance} }

\* every eye pass of the frame has drawn something
NotBlank ==
    \A i \in 1..Len(frame) : \E k \in 1..Len(frame[i].gl) : frame[i].gl[k].op = "draw"

C20_OneCallbackPending ==
    loopState = "RUNNING" => pendingFrames = 1

\* C20 witness: a tick run as a frame callback (after samples were pushed,
\* hence after the first tick of the load handler) has left one callback
\* pending.
C20_Witness ==
    /\ loopState = "RUNNING"
    /\ frame # <<>>
    /\ positionHistory # <<>>
    /\ pendingFrames = 1

\* the tracking state a render tick reads
TrackingState == <<headPosition, positionHistory, baselineFaceWidth, calibratedDistance>>

\* a step that overwrites headPosition without pushing a sample:
\* calibrateDistance (z), or the copy of lastValidHeadPosition made when
\* tracking is turned off or a result holds no face
WritesHeadWithoutSample ==
    \/ \E answer \in PromptAnswers : CalibrateAccepted(answer)
    \/ ToggleOff
    \/ OnFaceResultsEmpty

\* C21 (as stated): a render tick leaves headPosition, positionHistory,
\* baselineFaceWidth and calibratedDistance as they are, and the position the
\* next tick renders with changes only when a sample is pushed: with no new
\* sample since the previous tick, the tick renders with the same position.
C21_TickReadsOnlySamples ==
    [][/\ Animate => UNCHANGED TrackingState
       /\ headPosition' # headPosition => positionHistory' # positionHistory]_vars

\* C21 (amended): a render tick leaves the tracking state as it is, and the
\* position the next tick renders with changes only when a sample is pushed,
\* when calibrateDistance succeeds, or when lastValidHeadPosition is copied
\* back on tracking stop or on a result without a face.
C21_TickReadsOnly ==
    [][/\ Animate => UNCHANGED TrackingState
       /\ headPosition' # headPosition =>
              (positionHistory' # positionHistory \/ WritesHeadWithoutSample)]_vars

\* C21 witness: a tick has run while a detector request was in flight, and
\* has drawn from a position that calibration changed after the last sample.
C21_Witness ==
    /\ frame # <<>>
    /\ inflight
    /\ positionHistory # <<>>
    /\ calibrations > 0
    /\ headPosition.z # EstimateAtLastPush.z
    /\ frame = RenderTick(variant, headPosition, isInterlacedMode, catVertexBuffer)

\* C22: toggleInterlacedMode leaves the GL buffers, headPosition,
\* positionHistory and the calibration (baselineFaceWidth,
\* calibratedDistance) as they are, and every render tick executes two eye
\* passes if isInterlacedMode is true and exactly one otherwise.
C22_ToggleChangesPassCountOnly ==
    /\ [][\A checked \in BOOLEAN :
             ToggleInterlacedMode(checked) =>
                 /\ isInterlacedMode' = checked
                 /\ UNCHANGED <<TrackingState, catVertexBuffer, lastValidHeadPosition>>]_vars
    /\ [](frame # <<>> => Len(frame) = (IF isInterlacedMode THEN 2 ELSE 1))

\* C22 witness: a variant that starts in mono mode has drawn a frame of two
\* eye passes for a tracked head.
C22_Witness ==
    /\ variant \in {"shoebox", "glb"}
    /\ isInterlacedMode
    /\ positionHistory # <<>>
    /\ Len(frame) = 2

ClampedWeight(pos, currentTime) ==
    IF Lt(Weight(pos, currentTime), Zero) THEN Zero ELSE Weight(pos, currentTime)

\* the sums of the retained samples under the clamped weights
RECURSIVE ClampedSums(_, _)
ClampedSums(h, currentTime) ==
    IF h = <<>> THEN [x |-> Zero, y |-> Zero, z |-> Zero, totalWeight |-> Zero]
    ELSE LET rest == ClampedSums(Tail(h), currentTime)
             weight == ClampedWeight(Head(h), currentTime)
         IN  [x |-> Add(Mul(Head(h).x, weight), rest.x),
              y |-> Add(Mul(Head(h).y, weight), rest.y),
              z |-> Add(Mul(Head(h).z, weight), rest.z),
              totalWeight |-> Add(weight, rest.totalWeight)]

\* C25: in the weighted variants, after every updateHeadPosition call each
\* retained sample has a weight 1 - age / SMOOTHING_WINDOW_MS between 0 and
\* 1, the sample just pushed has weight 1, the total weight is positive, and
\* headPosition is the average of the retained samples normalized by the
\* weights max(0, 1 - age / SMOOTHING_WINDOW_MS), never the raw values of
\* the fallback branch for want of weight.
C25_WeightsWithinUnitInterval ==
    [][(variant # "glb" /\ positionHistory' # positionHistory) =>
          LET h == positionHistory'
              currentTime == h[Len(h)].timestamp
              s == ClampedSums(h, currentTime)
          IN  /\ \A i \in 1..Len(h) :
                     /\ ~Lt(Weight(h[i], currentTime), Zero)
                     /\ ~Gt(Weight(h[i], currentTime), One)
                     /\ Weight(h[i], currentTime) = ClampedWeight(h[i], currentTime)
              /\ Weight(h[Len(h)], currentTime) = One
              /\ Gt(s.totalWeight, Zero)
              /\ headPosition' = Vec3(Div(s.x, s.totalWeight), Div(s.y, s.totalWeight),
                                      Div(s.z, s.totalWeight))]_vars

\* C25 witness: a weighted variant holds two samples, the older with a
\* weight strictly between 0 and 1, and a head position that is neither of
\* them.
C25_Witness ==
    /\ variant # "glb"
    /\ Len(positionHistory) = 2
    /\ Gt(Weight(positionHistory[1], LastSample.timestamp), Zero)
    /\ Lt(Weight(positionHistory[1], LastSample.timestamp), One)
    /\ headPosition # PositionOf(positionHistory[1])
    /\ headPosition # PositionOf(LastSample)
    /\ headPosition = EstimateAtLastPush

\* C26: in a stereo frame of the Three.js variant the eyes are at the camera
\* position shifted by minus and plus half the eye separation along x, each
\* eye is drawn with the off-axis frustum built from its own position, and
\* so each eye in front of the screen plane maps the screen rectangle
\* exactly onto the viewport.
C26_StereoEyesOffAxis ==
    (variant = "glb" /\ StereoFrame) =>
        LET camera == CameraFromHead(headPosition)
            halfSeparation == Div(EYE_SEPARATION, Int2Rat(20))
        IN  /\ frame[1].eye = ShiftedX(camera.position, Neg(halfSeparation))
            /\ frame[2].eye = ShiftedX(camera.position, halfSeparation)
            /\ \A i \in 1..2 :
                   /\ frame[i].frustum =
                          SimilarTriangles(camera.frustum.near, camera.frustum.far,
                                           HalfScreenWidth("glb"), HalfScreenHeight("glb"),
                                           frame[i].eye.x, frame[i].eye.y, frame[i].eye.z)
                   /\ InFront(frame[i].eye) =>
                          \A c \in ScreenCorners : CornerOnViewportCorner("glb", frame[i], c)

\* C27: in the variants that keep lastValidHeadPosition, once
\* hasTrackedAtLeastOnce is set, lastValidHeadPosition equals headPosition
\* between any two handlers, so that copying it back changes nothing.
C27_LastValidIsCurrent ==
    (KeepsLastValid(variant) /\ hasTrackedAtLeastOnce) =>
        lastValidHeadPosition = headPosition

\* C28: when the load handler's auto-start sequence completes, with a camera
\* that starts whenever asked, isHeadTracking is true, however the user's
\* clicks on the tracking button fall between the sequence's timers and awaits.
C28_AutoStartEndsTracking ==
    [][autoStart # "done" /\ autoStart' = "done" => isHeadTracking']_vars

\* C29: once two toggleHeadTracking() calls have both run to their end, with
\* camera start succeeding and no other call made, isHeadTracking is what it
\* was before the first of them, also when the second call began while the
\* first was awaiting camera start.
C29_TwoCallsRestoreTracking ==
    autoStart = "none" /\ toggleCalls = 2 /\ pendingStarts = 0 =>
        isHeadTracking = trackingAtFirstCall
\* the next toggleHeadTracking() call takes the branch that starts the camera
NextCallStartsCamera == ~isHeadTracking /\ (variant = "glb" \/ ~cameraStream)

====
